---------------------------- MODULE Spec2Model ----------------------------
(***************************************************************************)
(* Model of automation/doe_pb_core.py (DoePBScraper).                      *)
(*                                                                         *)
(*  - SpecResolver : one call of _find_pdf_link_in_detail, stepped through *)
(*                   its navigation, its candidate loop and its raw-markup *)
(*                   loop; every HTTP fetch draws its response.            *)
(*  - Spec         : one call of rodar (historico or diario), one step per *)
(*                   listing page load and per item iteration.             *)
(*  - SpecCeiling  : the historico crawl over the whole range of offsets.  *)
(*  - SpecDiario   : rodar in diario mode on listing pages of more anchors *)
(*                   than the mode takes.                                  *)
(*  - SpecExtract  : one call of _extract_records, one step per page and   *)
(*                   per block, on page texts made of the parts of an act. *)
(***************************************************************************)
EXTENDS Integers, Sequences, FiniteSets, TLC

\* ------------------------------------------------------------------------
\* Bounds of the model
\* ------------------------------------------------------------------------
MaxAnchors == 2
MaxFrames == 1
MaxMarkup == 2
MaxItems == 2
MaxListingPages == 3
MaxRecs == 1
MaxBlankPages == 1
MaxDiarioAnchors == 8

\* Python's None, where the other values are records.
None == [none |-> TRUE]

\* ------------------------------------------------------------------------
\* URLs.  A URL is a sequence of text pieces, so that the string tests of
\* the code (endswith, in, rstrip, the regex) are computed on it.
\*   "doe/"             a directory of the site
\*   ".pdf" / ".PDF"    the extension, in either case
\*   "/@@download/file" the download marker
\*   "\\"               a backslash
\*   "/"                a trailing slash
\* ------------------------------------------------------------------------
Lower(tok) == IF tok = ".PDF" THEN ".pdf" ELSE tok

Contains(u, tok) == \E k \in 1..Len(u) : u[k] = tok

\* str.lower().endswith(".pdf")
EndsWithPdfLower(u) == Len(u) > 0 /\ Lower(u[Len(u)]) = ".pdf"

\* "@@download/file" in s
HasDownloadMarker(u) == Contains(u, "/@@download/file")

RECURSIVE RStripSlash(_)
RStripSlash(u) ==
    IF Len(u) > 0 /\ u[Len(u)] = "/" THEN RStripSlash(SubSeq(u, 1, Len(u) - 1)) ELSE u

\* The directory of a URL: everything up to and including its last "doe/".
RECURSIVE DirOf(_)
DirOf(u) ==
    IF Len(u) = 0 THEN << >>
    ELSE IF u[Len(u)] = "doe/" THEN u
    ELSE DirOf(SubSeq(u, 1, Len(u) - 1))

\* urllib.parse.urljoin(base, ref): an absolute reference is kept, a relative
\* one is resolved against the directory of base.
UrlJoin(b, ref) == IF ref.abs THEN ref.path ELSE DirOf(b) \o ref.path

Abs(p) == [abs |-> TRUE, path |-> p]
Rel(p) == [abs |-> FALSE, path |-> p]

\* ------------------------------------------------------------------------
\* HTTP responses of urlopen.  err: urlopen or read raised (network error,
\* timeout, HTTP error).  magic: the body starts with %PDF.  ct_pdf: the
\* Content-Type contains application/pdf.  empty: the body has no bytes.
\* ------------------------------------------------------------------------
ErrorResponse == [err |-> TRUE, magic |-> FALSE, ct_pdf |-> FALSE, empty |-> TRUE]

Responses ==
    {ErrorResponse} \cup
    {r \in [err : {FALSE}, magic : BOOLEAN, ct_pdf : BOOLEAN, empty : BOOLEAN] :
        r.magic => ~r.empty}

\* The bytes of a response, as far as the code looks at them.
Body(resp) == [magic |-> resp.magic, empty |-> resp.empty]

\* As DownloadPdfBytes, without the test of the magic bytes and content type.
DownloadAnyBytes(resp) == IF resp.err THEN None ELSE Body(resp)

\* _download_pdf_bytes: the body when it starts with %PDF or the content type
\* is a PDF one; None otherwise and on any exception.
DownloadPdfBytes(resp) ==
    IF resp.err THEN None
    ELSE IF resp.magic \/ resp.ct_pdf THEN Body(resp)
    ELSE None

\* `if data:` -- None and b"" are falsy.
Truthy(data) == data # None /\ ~data.empty

\* ------------------------------------------------------------------------
\* The detail page: what the resolver reads from the browser.
\* ------------------------------------------------------------------------
DetailPlain == <<"doe/", "ed1">>
DetailPdf == <<"doe/", "ed2", ".pdf">>
DetailUrls == {DetailPlain, DetailPdf}

\* a.get_attribute("href") of the a[href] elements (absolute URLs).
HrefPdf == <<"doe/", "f1", ".pdf">>
HrefDownload == <<"doe/", "ed2", ".pdf", "/@@download/file">>
HrefQuery == <<"doe/", "dl?f=a", "\\", ".PDF">>
HrefOther == <<"doe/", "about">>
AnchorHrefs == {HrefPdf, HrefDownload, HrefQuery, HrefOther}

\* el.get_attribute("src") of the iframe[src] and embed[src] elements.
SrcPdf == <<"doe/", "f1", ".pdf">>
SrcUpper == <<"doe/", "view", ".PDF">>
FrameSrcs == {SrcPdf, SrcUpper}

\* The values of the href="..." attributes in d.page_source, as written.
RawPlain == Rel(<<"f1", ".pdf">>)
RawBackslash == Rel(<<"dl?f=a", "\\", ".PDF">>)
RawHrefs == {RawPlain, RawBackslash}

RECURSIVE SeqsUpTo(_, _)
SeqsUpTo(S, n) ==
    IF n = 0 THEN {<< >>}
    ELSE LET shorter == SeqsUpTo(S, n - 1)
         IN  shorter \cup {Append(s, x) : s \in {t \in shorter : Len(t) = n - 1}, x \in S}

VARIABLES
    r_pc,          \* where the call of _find_pdf_link_in_detail is
    detail_url,    \* its argument
    current_url,   \* d.current_url after the load
    anchors,       \* hrefs of the a[href] elements, in document order
    frames,        \* srcs of the iframe[src] then embed[src] elements
    page_source,   \* href attribute values of d.page_source, in order
    candidates,    \* the list `candidates`, each URL with the rule that found it
    r_seen,        \* the set `seen` of the candidate loop
    r_idx,         \* position in the loop that is running
    fetches,       \* every call of _download_pdf_bytes so far: URL and rule
    last_resp,     \* the response of the last fetch
    r_result       \* the returned pair (data, url)

resolverVars == <<r_pc, detail_url, current_url, anchors, frames, page_source,
                  candidates, r_seen, r_idx, fetches, last_resp, r_result>>

VARIABLES
    modo,          \* the argument of rodar
    pc,            \* where rodar is
    driver,        \* self.driver: "None" or "live"
    wait,          \* self.wait: "None" or "live"
    quit_calls,    \* calls of driver.quit()
    outcome,       \* how rodar ended: "running", "returned" or "raised"
    fault,         \* what raised the exception that is propagating or ended rodar
    sink,          \* the rows of saida_csv, the header first
    seen,          \* the set `seen` of _historico_stream
    saved,         \* the counter `saved`
    rows_total,    \* the counter `rows_total`
    rows,          \* the list `rows` of the diario branch
    stop,          \* the flag `stop` of the last listing page
    items,         \* the items of the last listing page (`detalhes` in diario)
    i,             \* position in the item loop
    start,         \* the offset of the last listing page
    loads,         \* listing pages loaded so far
    listing,       \* the anchors of the last listing page, as the browser shows them
    disk,          \* the files written to download_dir
    summary,       \* the [DONE] line, once printed
    resolved,      \* the items handed to _find_pdf_link_in_detail, in order
    extracted      \* the items whose bytes were handed to _extract_records, in order

crawlVars == <<modo, pc, driver, wait, quit_calls, outcome, fault, sink, seen, saved,
               rows_total, rows, stop, items, i, start, loads, listing, disk, summary,
               resolved, extracted>>

VARIABLES
    e_pc,          \* where the call of _extract_records is
    pdf_pages,     \* the text pdfplumber extracts from each page of the PDF
    pagina,        \* the number `i` of the page the loop is at
    raw_blocks,    \* the list `raw_blocks` of that page
    e_idx,         \* position in the loop over raw_blocks
    registros,     \* the list `registros`
    blocks_done    \* every block the loop has handled, with the records it added

extractVars == <<e_pc, pdf_pages, pagina, raw_blocks, e_idx, registros, blocks_done>>

vars == <<resolverVars, crawlVars, extractVars>>

NoResult == [data |-> None, url |-> << >>]

\* ------------------------------------------------------------------------
\* _find_pdf_link_in_detail
\* ------------------------------------------------------------------------
Cand(u, rule) == [u |-> u, rule |-> rule]

\* lines 103-106: anchors whose href ends in .pdf (any case) or holds the marker
RECURSIVE AnchorCandidates(_, _)
AnchorCandidates(b, as) ==
    IF as = << >> THEN << >>
    ELSE LET href == Head(as)
             rest == AnchorCandidates(b, Tail(as))
         IN  IF EndsWithPdfLower(href) \/ HasDownloadMarker(href)
             THEN <<Cand(UrlJoin(b, Abs(href)), "anchor")>> \o rest
             ELSE rest

\* lines 108-112: frames whose src contains ".pdf" (case-sensitive) or the marker
RECURSIVE FrameCandidates(_, _)
FrameCandidates(b, fs) ==
    IF fs = << >> THEN << >>
    ELSE LET src == Head(fs)
             rest == FrameCandidates(b, Tail(fs))
         IN  IF Contains(src, ".pdf") \/ HasDownloadMarker(src)
             THEN <<Cand(UrlJoin(b, Abs(src)), "frame")>> \o rest
             ELSE rest

\* lines 114-115: the synthesized download URL
SynthCandidates(d) ==
    IF EndsWithPdfLower(d) /\ ~HasDownloadMarker(d)
    THEN <<Cand(RStripSlash(d) \o <<"/@@download/file">>, "synth")>>
    ELSE << >>

\* lines 116-117: the detail reference itself when nothing else was found
SelfCandidate(found, d) == IF found = << >> THEN <<Cand(d, "self")>> ELSE found

\* lines 100-117
CollectCandidates(d, b, as, fs) ==
    SelfCandidate(AnchorCandidates(b, as) \o FrameCandidates(b, fs) \o SynthCandidates(d), d)

\* line 128: the regex href=["\']([^"\']+\\.pdf[^"\']*)["\'] of the raw string
\* asks for a backslash, any one character and "pdf" (re.I): it matches an
\* attribute value whose first backslash comes after at least one character,
\* is followed by ".pdf" and is the only backslash of the value.
FirstBackslash(p) == CHOOSE k \in 1..Len(p) : p[k] = "\\" /\ \A j \in 1..(k - 1) : p[j] # "\\"

RegexMatches(p) ==
    /\ Contains(p, "\\")
    /\ LET k == FirstBackslash(p)
       IN  /\ k > 1
           /\ k < Len(p)
           /\ Lower(p[k + 1]) = ".pdf"
           /\ \A j \in (k + 1)..Len(p) : p[j] # "\\"

\* re.finditer over page_source: the matching values, in order
RECURSIVE RegexScan(_)
RegexScan(html) ==
    IF html = << >> THEN << >>
    ELSE IF RegexMatches(Head(html).path) THEN <<Head(html)>> \o RegexScan(Tail(html))
    ELSE RegexScan(Tail(html))

\* line 134
FallbackUrl(cands, d) == IF cands # << >> THEN cands[1].u ELSE d

ResolverIdle ==
    /\ r_pc = "idle"
    /\ detail_url = << >>
    /\ current_url = << >>
    /\ anchors = << >>
    /\ frames = << >>
    /\ page_source = << >>
    /\ candidates = << >>
    /\ r_seen = {}
    /\ r_idx = 0
    /\ fetches = << >>
    /\ last_resp = None
    /\ r_result = NoResult

\* A call: the argument and what the browser and the site will show.
ResolverCalled ==
    /\ r_pc = "call"
    /\ detail_url \in DetailUrls
    /\ current_url = << >>
    /\ anchors \in SeqsUpTo(AnchorHrefs, MaxAnchors)
    /\ frames \in SeqsUpTo(FrameSrcs, MaxFrames)
    /\ page_source \in SeqsUpTo(RawHrefs, MaxMarkup)
    /\ candidates = << >>
    /\ r_seen = {}
    /\ r_idx = 0
    /\ fetches = << >>
    /\ last_resp = None
    /\ r_result = NoResult

\* line 95: d.get(detail_url) raises (page-load timeout, net::ERR_...); nothing
\* in the method catches it.
NavigateRaises ==
    /\ r_pc = "call"
    /\ r_pc' = "raised"
    /\ UNCHANGED <<detail_url, current_url, anchors, frames, page_source, candidates,
                   r_seen, r_idx, fetches, last_resp, r_result,
                   crawlVars, extractVars>>

\* lines 95-119: the page loads; the wait for a[href] may time out (caught,
\* line 97) and the overlay script may fail (caught, line 75); the candidates
\* are collected.  The browser stays on detail_url or was redirected.
NavigateLoads ==
    /\ r_pc = "call"
    /\ \E landed \in {detail_url, <<"doe/", "view", "ed1">>} :
          /\ current_url' = landed
          /\ candidates' = CollectCandidates(detail_url, landed, anchors, frames)
    /\ r_seen' = {}
    /\ r_idx' = 1
    /\ r_pc' = "candidates"
    /\ UNCHANGED <<detail_url, anchors, frames, page_source, fetches, last_resp, r_result,
                   crawlVars, extractVars>>

\* lines 120-121: a URL already in seen is passed over
CandidateSeen ==
    /\ r_pc = "candidates"
    /\ r_idx <= Len(candidates)
    /\ candidates[r_idx].u \in r_seen
    /\ r_idx' = r_idx + 1
    /\ UNCHANGED <<r_pc, detail_url, current_url, anchors, frames, page_source,
                   candidates, r_seen, fetches, last_resp, r_result,
                   crawlVars, extractVars>>

\* lines 122-125: fetch the candidate; return on the first truthy data
CandidateFetch ==
    /\ r_pc = "candidates"
    /\ r_idx <= Len(candidates)
    /\ candidates[r_idx].u \notin r_seen
    /\ r_seen' = r_seen \cup {candidates[r_idx].u}
    /\ fetches' = Append(fetches, candidates[r_idx])
    /\ \E resp \in Responses :
          /\ last_resp' = resp
          /\ LET data == DownloadPdfBytes(resp)
             IN  IF Truthy(data)
                 THEN /\ r_result' = [data |-> data, url |-> candidates[r_idx].u]
                      /\ r_pc' = "returned"
                      /\ r_idx' = r_idx
                 ELSE /\ r_idx' = r_idx + 1
                      /\ UNCHANGED <<r_result, r_pc>>
    /\ UNCHANGED <<detail_url, current_url, anchors, frames, page_source, candidates,
                   crawlVars, extractVars>>

\* lines 127-128: the candidate loop ended without a return; the raw-markup
\* scan starts
MarkupScan ==
    /\ r_pc = "candidates"
    /\ r_idx > Len(candidates)
    /\ r_pc' = "markup"
    /\ r_idx' = 1
    /\ UNCHANGED <<detail_url, current_url, anchors, frames, page_source, candidates,
                   r_seen, fetches, last_resp, r_result,
                   crawlVars, extractVars>>

\* lines 128-132: each match is fetched (seen is not consulted)
MarkupFetch ==
    /\ r_pc = "markup"
    /\ r_idx <= Len(RegexScan(page_source))
    /\ LET u == UrlJoin(current_url, RegexScan(page_source)[r_idx])
       IN  /\ fetches' = Append(fetches, Cand(u, "regex"))
           /\ \E resp \in Responses :
                 /\ last_resp' = resp
                 /\ LET data == DownloadPdfBytes(resp)
                    IN  IF Truthy(data)
                        THEN /\ r_result' = [data |-> data, url |-> u]
                             /\ r_pc' = "returned"
                             /\ r_idx' = r_idx
                        ELSE /\ r_idx' = r_idx + 1
                             /\ UNCHANGED <<r_result, r_pc>>
    /\ UNCHANGED <<detail_url, current_url, anchors, frames, page_source, candidates, r_seen,
                   crawlVars, extractVars>>

\* line 134: nothing could be fetched
ReturnAbsent ==
    /\ r_pc = "markup"
    /\ r_idx > Len(RegexScan(page_source))
    /\ r_result' = [data |-> None, url |-> FallbackUrl(candidates, detail_url)]
    /\ r_pc' = "returned"
    /\ UNCHANGED <<detail_url, current_url, anchors, frames, page_source, candidates,
                   r_seen, r_idx, fetches, last_resp,
                   crawlVars, extractVars>>

\* ------------------------------------------------------------------------
\* Listing pages.  The text of an anchor, as far as the code reads it:
\*   diario : "Diário Oficial" in txt
\*   pdf    : ".pdf" in txt
\*   date   : the first dd-mm-yyyy (or dd/mm/yyyy) of txt as <<dd, mm, yyyy>>,
\*            << >> when txt holds none
\* ------------------------------------------------------------------------
CUTOFF_YEAR_STOP == 2019
PAGE_STEP == 12
RANGE_START == 12
RANGE_STOP == 20000
MIN_YEAR == 2020
DIARIO_LIMIT == 5

Label(dia, pdf, date) == [diario |-> dia, pdf |-> pdf, date |-> date]

LabelNew == Label(TRUE, TRUE, <<7, 1, 2020>>)
LabelCutoff == Label(TRUE, TRUE, <<30, 12, 2019>>)
LabelOld == Label(TRUE, TRUE, <<5, 3, 2018>>)
LabelUndated == Label(TRUE, TRUE, << >>)
LabelOther == Label(FALSE, TRUE, <<5, 3, 2018>>)
Labels == {LabelNew, LabelCutoff, LabelOld, LabelUndated, LabelOther}

Hrefs == {"doe/e1", "doe/e2"}

Anchor(h, t) == [href |-> h, txt |-> t]

\* The anchors a listing page is made of: each reference under a label in
\* range (undated, 2020) and under a label that is not (2018, 2019, no edition).
ListingAnchors ==
    {Anchor("doe/e1", LabelUndated), Anchor("doe/e1", LabelOld),
     Anchor("doe/e2", LabelNew), Anchor("doe/e2", LabelCutoff), Anchor("doe/e2", LabelOther)}

\* line 208
IsEdition(txt) == txt.diario /\ txt.pdf

\* line 19, RE_DATE.search(txt)
ReDate(txt) == txt.date

\* line 211: year is None ({}) or int(m.group(3)) ({yyyy})
YearOf(txt) == IF ReDate(txt) = << >> THEN {} ELSE {ReDate(txt)[3]}

\* As AtCutoff, with < for <=.
AtCutoffStrict(year) == \E y \in year : y < CUTOFF_YEAR_STOP

\* line 212: year is not None and year <= CUTOFF_YEAR_STOP
AtCutoff(year) == \E y \in year : y <= CUTOFF_YEAR_STOP

\* As BelowMinYear, with an absent year taken for one below 2020.
BelowMinYearOrNone(year) == year = {} \/ \E y \in year : y < MIN_YEAR

\* lines 226, 247: year is not None and year < 2020
BelowMinYear(year) == \E y \in year : y < MIN_YEAR

Item(a) == [href |-> a.href, txt |-> a.txt, year |-> YearOf(a.txt)]

\* As IterListingPage, with break for continue at the cutoff item.
RECURSIVE IterListingPageBreak(_)
IterListingPageBreak(as) ==
    IF as = << >> THEN [stop |-> FALSE, items |-> << >>]
    ELSE LET a == Head(as)
         IN  IF ~IsEdition(a.txt) THEN IterListingPageBreak(Tail(as))
             ELSE IF AtCutoff(YearOf(a.txt)) THEN [stop |-> TRUE, items |-> << >>]
             ELSE LET rest == IterListingPageBreak(Tail(as))
                  IN  [stop |-> rest.stop, items |-> <<Item(a)>> \o rest.items]

\* _iter_listing_page, lines 205-215: (stop_flag, items) of the anchors
RECURSIVE IterListingPage(_)
IterListingPage(as) ==
    IF as = << >> THEN [stop |-> FALSE, items |-> << >>]
    ELSE LET a == Head(as)
             rest == IterListingPage(Tail(as))
         IN  IF ~IsEdition(a.txt) THEN rest
             ELSE IF AtCutoff(YearOf(a.txt)) THEN [stop |-> TRUE, items |-> rest.items]
             ELSE [stop |-> rest.stop, items |-> <<Item(a)>> \o rest.items]

\* rodar, lines 272-277: the first DIARIO_LIMIT edition anchors
RECURSIVE EditionAnchors(_)
EditionAnchors(as) ==
    IF as = << >> THEN << >>
    ELSE IF IsEdition(Head(as).txt)
         THEN <<[href |-> Head(as).href, txt |-> Head(as).txt]>> \o EditionAnchors(Tail(as))
         ELSE EditionAnchors(Tail(as))

\* As Detalhes, without the slice of line 277.
DetalhesAll(as) == EditionAnchors(as)

Detalhes(as) ==
    LET all == EditionAnchors(as)
    IN  SubSeq(all, 1, IF Len(all) < DIARIO_LIMIT THEN Len(all) ELSE DIARIO_LIMIT)

\* As RangeHasNext, with the stop of the range one step too far.
RangeHasNextOff(s) == s < RANGE_STOP + PAGE_STEP

\* line 242: range(12, 20000, PAGE_STEP) yields `s`
RangeHasNext(s) == s < RANGE_STOP

\* lines 226, 247
SkipItem(it, sn) == it.href \in sn \/ BelowMinYear(it.year)

\* The rows of the sink.  A data row names the item it was extracted from and
\* the position of the record in the list _extract_records returned.
Header == [header |-> TRUE]
Row(it, k) == [data_link |-> it.txt, detail_url |-> it.href, rec |-> k]
RowsOf(it, n) == [k \in 1..n |-> Row(it, k)]

\* lines 231-232: the file name is made from the label
FileName(txt) == txt

\* lines 237, 239, 260: the counts of the summary line
Summary(sv, rt) == [pdfs |-> sv, registros |-> rt]

\* What a call of _find_pdf_link_in_detail is to its caller: it raises
\* (r_pc = "raised"), returns (None, url) or returns (data, url).
\* What a call of _extract_records is: a list of 0..MaxRecs records, or an
\* exception of pdfplumber on bytes that are no PDF.
RecCounts == 0..MaxRecs

CrawlIdle ==
    /\ modo = "historico"
    /\ pc = "idle"
    /\ driver = "None"
    /\ wait = "None"
    /\ quit_calls = 0
    /\ outcome = "running"
    /\ fault = "none"
    /\ sink = << >>
    /\ seen = {}
    /\ saved = 0
    /\ rows_total = 0
    /\ rows = << >>
    /\ stop = FALSE
    /\ items = << >>
    /\ i = 0
    /\ start = 0
    /\ loads = 0
    /\ listing = << >>
    /\ disk = {}
    /\ summary = None
    /\ resolved = << >>
    /\ extracted = << >>

\* __init__, lines 54-60, and the call of rodar with its mode
CrawlCalled(modes) ==
    /\ modo \in modes
    /\ pc = "rodar"
    /\ driver = "None"
    /\ wait = "None"
    /\ quit_calls = 0
    /\ outcome = "running"
    /\ fault = "none"
    /\ sink = << >>
    /\ seen = {}
    /\ saved = 0
    /\ rows_total = 0
    /\ rows = << >>
    /\ stop = FALSE
    /\ items = << >>
    /\ i = 0
    /\ start = 0
    /\ loads = 0
    /\ listing = << >>
    /\ disk = {}
    /\ summary = None
    /\ resolved = << >>
    /\ extracted = << >>

\* lines 264-265, 62-64: start() builds the driver and the wait
RodarStart ==
    /\ pc = "rodar"
    /\ driver' = "live"
    /\ wait' = "live"
    /\ pc' = IF modo = "historico" THEN "open" ELSE "d_load"
    /\ UNCHANGED <<modo, quit_calls, outcome, fault, sink, seen, saved, rows_total, rows,
                   stop, items, i, start, loads, listing, disk, summary, resolved,
                   extracted, resolverVars, extractVars>>

\* line 265 is outside the try: build_driver raises, no session was acquired
RodarStartFails ==
    /\ pc = "rodar"
    /\ pc' = "done"
    /\ outcome' = "raised"
    /\ fault' = "start"
    /\ UNCHANGED <<modo, driver, wait, quit_calls, sink, seen, saved, rows_total, rows,
                   stop, items, i, start, loads, listing, disk, summary, resolved,
                   extracted, resolverVars, extractVars>>

\* As OpenSink, without the call of writeheader.
OpenSinkNoHeader ==
    /\ pc = "open"
    /\ sink' = << >>
    /\ pc' = "first"
    /\ UNCHANGED <<modo, driver, wait, quit_calls, outcome, fault, seen, saved, rows_total,
                   rows, stop, items, i, start, loads, listing, disk, summary, resolved,
                   extracted, resolverVars, extractVars>>

\* lines 218-221: the sink is opened and the header written
OpenSink ==
    /\ pc = "open"
    /\ sink' = <<Header>>
    /\ pc' = "first"
    /\ UNCHANGED <<modo, driver, wait, quit_calls, outcome, fault, seen, saved, rows_total,
                   rows, stop, items, i, start, loads, listing, disk, summary, resolved,
                   extracted, resolverVars, extractVars>>

\* line 219: open() raises
OpenSinkFails ==
    /\ pc = "open"
    /\ fault' = "sink"
    /\ pc' = "finally"
    /\ UNCHANGED <<modo, driver, wait, quit_calls, outcome, sink, seen, saved, rows_total,
                   rows, stop, items, i, start, loads, listing, disk, summary, resolved,
                   extracted, resolverVars, extractVars>>

\* line 223: the first listing page
LoadFirstPage(pages) ==
    /\ pc = "first"
    /\ \E page \in pages :
          /\ listing' = page
          /\ stop' = IterListingPage(page).stop
          /\ items' = IterListingPage(page).items
    /\ i' = 1
    /\ loads' = loads + 1
    /\ pc' = "items0"
    /\ UNCHANGED <<modo, driver, wait, quit_calls, outcome, fault, sink, seen, saved,
                   rows_total, rows, start, disk, summary, resolved, extracted,
                   resolverVars, extractVars>>

\* lines 203, 271: d.get of a listing page raises
ListingLoadFails(cap) ==
    /\ \/ pc \in {"first", "d_load"}
       \/ pc = "for" /\ RangeHasNext(start) /\ loads < cap
    /\ fault' = "listing"
    /\ pc' = "finally"
    /\ UNCHANGED <<modo, driver, wait, quit_calls, outcome, sink, seen, saved, rows_total,
                   rows, stop, items, i, start, loads, listing, disk, summary, resolved,
                   extracted, resolverVars, extractVars>>

InItemLoop == pc \in {"items0", "items"} /\ i <= Len(items)

\* lines 226, 247: the item is passed over
ItemSkipped ==
    /\ InItemLoop
    /\ SkipItem(items[i], seen)
    /\ i' = i + 1
    /\ UNCHANGED <<modo, pc, driver, wait, quit_calls, outcome, fault, sink, seen, saved,
                   rows_total, rows, stop, items, start, loads, listing, disk, summary,
                   resolved, extracted, resolverVars, extractVars>>

\* lines 227-228: the resolver raises; nothing in _historico_stream catches it
ItemResolveRaises ==
    /\ InItemLoop
    /\ ~SkipItem(items[i], seen)
    /\ seen' = seen \cup {items[i].href}
    /\ resolved' = Append(resolved, items[i])
    /\ fault' = "timeout"
    /\ pc' = "finally"
    /\ UNCHANGED <<modo, driver, wait, quit_calls, outcome, sink, saved, rows_total, rows,
                   stop, items, i, start, loads, listing, disk, summary, extracted,
                   resolverVars, extractVars>>

\* lines 227-229: the resolver returns no bytes
ItemNoPdf ==
    /\ InItemLoop
    /\ ~SkipItem(items[i], seen)
    /\ seen' = seen \cup {items[i].href}
    /\ resolved' = Append(resolved, items[i])
    /\ i' = i + 1
    /\ UNCHANGED <<modo, pc, driver, wait, quit_calls, outcome, fault, sink, saved,
                   rows_total, rows, stop, items, start, loads, listing, disk, summary,
                   extracted, resolverVars, extractVars>>

\* lines 227-237: bytes; the file is written (or the write fails, line 234) and
\* each record is written to the sink
ItemExtracted ==
    /\ InItemLoop
    /\ ~SkipItem(items[i], seen)
    /\ seen' = seen \cup {items[i].href}
    /\ resolved' = Append(resolved, items[i])
    /\ saved' = saved + 1
    /\ \E written \in BOOLEAN :
          disk' = IF written THEN disk \cup {FileName(items[i].txt)} ELSE disk
    /\ extracted' = Append(extracted, items[i])
    /\ \E n \in RecCounts :
          /\ sink' = sink \o RowsOf(items[i], n)
          /\ rows_total' = rows_total + n
    /\ i' = i + 1
    /\ UNCHANGED <<modo, pc, driver, wait, quit_calls, outcome, fault, rows, stop, items,
                   start, loads, listing, summary, resolverVars, extractVars>>

\* lines 227-235: bytes that pdfplumber cannot open; the exception leaves
\* _historico_stream
ItemExtractRaises ==
    /\ InItemLoop
    /\ ~SkipItem(items[i], seen)
    /\ seen' = seen \cup {items[i].href}
    /\ resolved' = Append(resolved, items[i])
    /\ saved' = saved + 1
    /\ \E written \in BOOLEAN :
          disk' = IF written THEN disk \cup {FileName(items[i].txt)} ELSE disk
    /\ extracted' = Append(extracted, items[i])
    /\ fault' = "badpdf"
    /\ pc' = "finally"
    /\ UNCHANGED <<modo, driver, wait, quit_calls, outcome, sink, rows_total, rows, stop,
                   items, i, start, loads, listing, summary, resolverVars, extractVars>>

\* line 239: after the items of the first page
FirstPageDone ==
    /\ pc = "items0"
    /\ i > Len(items)
    /\ IF stop
       THEN /\ summary' = Summary(saved, rows_total)
            /\ pc' = "finally"
            /\ UNCHANGED start
       ELSE /\ start' = RANGE_START
            /\ pc' = "for"
            /\ UNCHANGED summary
    /\ UNCHANGED <<modo, driver, wait, quit_calls, outcome, fault, sink, seen, saved,
                   rows_total, rows, stop, items, i, loads, listing, disk, resolved,
                   extracted, resolverVars, extractVars>>

\* lines 242-245 and 260-261: the head of the for loop.  It loads the page at
\* the next offset of the range, or the range is exhausted and the summary is
\* printed.  `cap` bounds the pages a run of the model loads.
ForStart(pages, cap) ==
    /\ pc = "for"
    /\ IF RangeHasNext(start)
       THEN /\ loads < cap
            /\ \E page \in pages :
                  /\ listing' = page
                  /\ stop' = IterListingPage(page).stop
                  /\ items' = IterListingPage(page).items
            /\ i' = 1
            /\ loads' = loads + 1
            /\ pc' = "items"
            /\ UNCHANGED summary
       ELSE /\ summary' = Summary(saved, rows_total)
            /\ pc' = "finally"
            /\ UNCHANGED <<listing, stop, items, i, loads>>
    /\ UNCHANGED <<modo, driver, wait, quit_calls, outcome, fault, sink, seen, saved,
                   rows_total, rows, start, disk, resolved, extracted, resolverVars,
                   extractVars>>

\* lines 259-261: after the items of a paginated page (page_idx += 1 is on the
\* line of the break and never runs)
PageDone ==
    /\ pc = "items"
    /\ i > Len(items)
    /\ IF stop
       THEN /\ summary' = Summary(saved, rows_total)
            /\ pc' = "finally"
            /\ UNCHANGED start
       ELSE /\ start' = start + PAGE_STEP
            /\ pc' = "for"
            /\ UNCHANGED summary
    /\ UNCHANGED <<modo, driver, wait, quit_calls, outcome, fault, sink, seen, saved,
                   rows_total, rows, stop, items, i, loads, listing, disk, resolved,
                   extracted, resolverVars, extractVars>>

\* lines 270-279: the diario branch loads the listing once
DiarioLoad(pages) ==
    /\ pc = "d_load"
    /\ \E page \in pages :
          /\ listing' = page
          /\ items' = Detalhes(page)
    /\ i' = 1
    /\ loads' = loads + 1
    /\ pc' = "d_items"
    /\ UNCHANGED <<modo, driver, wait, quit_calls, outcome, fault, sink, seen, saved,
                   rows_total, rows, stop, start, disk, summary, resolved, extracted,
                   resolverVars, extractVars>>

InDiarioLoop == pc = "d_items" /\ i <= Len(items)

\* lines 281-283, 291-292: no bytes, or the resolver raised and the except
\* clause went on to the next item
DiarioItemNoPdf ==
    /\ InDiarioLoop
    /\ resolved' = Append(resolved, items[i])
    /\ i' = i + 1
    /\ UNCHANGED <<modo, pc, driver, wait, quit_calls, outcome, fault, sink, seen, saved,
                   rows_total, rows, stop, items, start, loads, listing, disk, summary,
                   extracted, resolverVars, extractVars>>

\* lines 281-290: bytes; the records are appended to rows.  When
\* _extract_records raises, the except clause goes on with no row added.
DiarioItemExtracted ==
    /\ InDiarioLoop
    /\ resolved' = Append(resolved, items[i])
    /\ saved' = saved + 1
    /\ \E written \in BOOLEAN :
          disk' = IF written THEN disk \cup {FileName(items[i].txt)} ELSE disk
    /\ extracted' = Append(extracted, items[i])
    /\ \E n \in RecCounts : rows' = rows \o RowsOf(items[i], n)
    /\ i' = i + 1
    /\ UNCHANGED <<modo, pc, driver, wait, quit_calls, outcome, fault, sink, seen,
                   rows_total, stop, items, start, loads, listing, summary, resolverVars,
                   extractVars>>

\* lines 294-300: the sink is written at the end
DiarioWrite ==
    /\ pc = "d_items"
    /\ i > Len(items)
    /\ sink' = <<Header>> \o rows
    /\ pc' = "finally"
    /\ UNCHANGED <<modo, driver, wait, quit_calls, outcome, fault, seen, saved, rows_total,
                   rows, stop, items, i, start, loads, listing, disk, summary, resolved,
                   extracted, resolverVars, extractVars>>

\* line 295: open() raises
DiarioWriteFails ==
    /\ pc = "d_items"
    /\ i > Len(items)
    /\ fault' = "sink"
    /\ pc' = "finally"
    /\ UNCHANGED <<modo, driver, wait, quit_calls, outcome, sink, seen, saved, rows_total,
                   rows, stop, items, i, start, loads, listing, disk, summary, resolved,
                   extracted, resolverVars, extractVars>>

\* As StopDriver, with the reset after the quit instead of in a finally clause.
StopDriverNoFinally(quitRaises) ==
    [driver |-> IF driver # "None" /\ quitRaises THEN driver ELSE "None",
     wait |-> IF driver # "None" /\ quitRaises THEN wait ELSE "None",
     quit_calls |-> IF driver # "None" THEN quit_calls + 1 ELSE quit_calls,
     raised |-> driver # "None" /\ quitRaises]

\* stop(), lines 66-70: quit the driver if there is one; reset driver and wait
\* whether or not quit raised
StopDriver(quitRaises) ==
    [driver |-> "None",
     wait |-> "None",
     quit_calls |-> IF driver # "None" THEN quit_calls + 1 ELSE quit_calls,
     raised |-> driver # "None" /\ quitRaises]

\* lines 301-302: the finally clause, on a return and on an exception
Finally ==
    /\ pc = "finally"
    /\ \E quitRaises \in BOOLEAN :
          LET s == StopDriver(quitRaises)
          IN  /\ driver' = s.driver
              /\ wait' = s.wait
              /\ quit_calls' = s.quit_calls
              /\ fault' = IF s.raised THEN "quit" ELSE fault
              /\ outcome' = IF s.raised \/ fault # "none" THEN "raised" ELSE "returned"
    /\ pc' = "done"
    /\ UNCHANGED <<modo, sink, seen, saved, rows_total, rows, stop, items, i, start, loads,
                   listing, disk, summary, resolved, extracted, resolverVars, extractVars>>

\* ------------------------------------------------------------------------
\* Text.  The text of a page is a string.  What the code makes of it (the
\* flattened block, its lower-case and normalised forms, the groups of the
\* patterns) is a sequence of characters, and the operators below work on
\* the characters as the str methods and the regular expressions do.
\* ------------------------------------------------------------------------
NL == "\n"

\* The character at position k (from 1) of a string or of a sequence of
\* characters, "" outside it.
At(s, k) == IF k >= 1 /\ k <= Len(s) THEN Head(SubSeq(s, k, k)) ELSE ""

\* The characters of a string, in order.
Text(s) == [k \in 1..Len(s) |-> At(s, k)]

CharSet(s) == {At(s, k) : k \in 1..Len(s)}

Least(S) == CHOOSE x \in S : \A y \in S : x <= y
Greatest(S) == CHOOSE x \in S : \A y \in S : x >= y

\* The letters of the texts: the class [A-ZÁÉÍÓÚÂÊÔÃÕÇ] of lines 20-31, the
\* same letters in lower case, and each marked letter without its mark.
Capitals == "ABCDEFGHIJKLMNOPQRSTUVWXYZÁÉÍÓÚÂÊÔÃÕÇ"
Smalls == "abcdefghijklmnopqrstuvwxyzáéíóúâêôãõç"
Marked == "áéíóúâêôãõç"
Unmarked == "aeiouaeoaoc"
Digits == "0123456789"

Pairing(from, to) ==
    [c \in CharSet(from) |-> At(to, CHOOSE k \in 1..Len(from) : At(from, k) = c)]

LowerOf == Pairing(Capitals, Smalls)
UnmarkedOf == Pairing(Marked, Unmarked)

\* The text with each character that f maps replaced by its image.
MapText(f, s) == [k \in 1..Len(s) |-> IF At(s, k) \in DOMAIN f THEN f[At(s, k)] ELSE At(s, k)]

\* str.lower()
TextLower(s) == MapText(LowerOf, s)

\* nrm, lines 16-17: lower case, NFD, combining marks dropped
nrm(s) == MapText(UnmarkedOf, TextLower(s))

\* s[k - 1:].startswith(w)
StartsAt(s, k, w) ==
    k >= 1 /\ k + Len(w) - 1 <= Len(s) /\ \A j \in 1..Len(w) : At(s, k + j - 1) = At(w, j)

\* w in s
InStr(w, s) == \E k \in 1..Len(s) : StartsAt(s, k, w)

\* s[a - 1:b]: the characters from position a to position b, none when a > b
Slice(s, a, b) == IF a > b THEN << >> ELSE SubSeq(s, a, b)

\* s.split(sep)
RECURSIVE Split(_, _)
Split(s, sep) ==
    IF ~InStr(sep, s) THEN <<Text(s)>>
    ELSE LET k == Least({j \in 1..Len(s) : StartsAt(s, j, sep)})
         IN  <<Slice(Text(s), 1, k - 1)>> \o Split(Slice(Text(s), k + Len(sep), Len(s)), sep)

\* \s of the texts
White == {" ", NL}

\* not s.strip()
Blank(s) == \A k \in 1..Len(s) : At(s, k) \in White

\* The last position of the run of characters of `class` that starts at k;
\* k - 1 when the character at k is not of the class.
RunEnd(s, k, class) ==
    LET others == {j \in k..Len(s) : At(s, j) \notin class}
    IN  IF At(s, k) \notin class THEN k - 1
        ELSE IF others = {} THEN Len(s)
        ELSE Least(others) - 1

\* As RunEnd, for the characters outside `class`.
RunEndNot(s, k, class) ==
    LET members == {j \in k..Len(s) : At(s, j) \in class}
    IN  IF k > Len(s) \/ At(s, k) \in class THEN k - 1
        ELSE IF members = {} THEN Len(s)
        ELSE Least(members) - 1

\* The first position of the run of characters of `class` that ends at k;
\* k + 1 when the character at k is not of the class.
RunStart(s, k, class) ==
    LET others == {j \in 1..k : At(s, j) \notin class}
    IN  IF At(s, k) \notin class THEN k + 1
        ELSE IF others = {} THEN 1
        ELSE Greatest(others) + 1

\* s.strip(chars)
Strip(s, class) == Slice(s, RunEnd(s, 1, class) + 1, RunStart(s, Len(s), class) - 1)

\* re.sub(r"\s+", " ", s)
Squeeze(s) ==
    SelectSeq([k \in 1..Len(s) |->
                  IF At(s, k) \notin White THEN At(s, k)
                  ELSE IF At(s, k - 1) \in White THEN ""
                  ELSE " "],
              LAMBDA c : c # "")

\* ------------------------------------------------------------------------
\* _extract_records, lines 137-198
\* ------------------------------------------------------------------------
\* lines 144-146: the blocks of a page
NonBlank(seq) == SelectSeq(seq, LAMBDA b : ~Blank(b))

RawBlocks(txt) ==
    LET paragraphs == NonBlank(Split(txt, NL \o NL))
    IN  IF Len(paragraphs) < 3 THEN NonBlank(Split(txt, NL)) ELSE paragraphs

\* line 148
Flat(bloco) == Strip(Squeeze(bloco), White)

\* As Tipo, with the test of the pension anchor before that of the
\* retirement anchor.
TipoPensionFirst(bflat) ==
    LET nb == nrm(bflat)
        low == TextLower(bflat)
    IN  IF InStr("conceder pensao", nb) \/ InStr("conceder pensão", low)
        THEN "PENSAO"
        ELSE IF InStr("conceder aposentadoria", nb)
        THEN "APOSENTADORIA"
        ELSE IF /\ \/ InStr("isencao de imposto de renda", nb)
                   \/ InStr("isenção de imposto de renda", low)
                /\ InStr("indef", nb)
        THEN "ISENCAO_INDEFERIDA"
        ELSE "None"

\* lines 149-156: tipo, "None" for a block that is passed over
Tipo(bflat) ==
    LET nb == nrm(bflat)
        low == TextLower(bflat)
    IN  IF InStr("conceder aposentadoria", nb)
        THEN "APOSENTADORIA"
        ELSE IF InStr("conceder pensao", nb) \/ InStr("conceder pensão", low)
        THEN "PENSAO"
        ELSE IF /\ \/ InStr("isencao de imposto de renda", nb)
                   \/ InStr("isenção de imposto de renda", low)
                /\ InStr("indef", nb)
        THEN "ISENCAO_INDEFERIDA"
        ELSE "None"

\* The classes of the patterns.  Under (?i) the class of capitals holds the
\* small letters too.
Caps == CharSet(Capitals)
Letters == CharSet(Capitals) \cup CharSet(Smalls)
NameBody == Letters \cup White \cup {"-", "."}
WordChars == Letters \cup CharSet(Digits) \cup {"_"}
ValueChars ==
    CharSet("ABCDEFGHIJKLMNOPQRSTUVWXYZ") \cup CharSet("abcdefghijklmnopqrstuvwxyz")
        \cup CharSet(Digits) \cup {".", "/", "-"}

\* The last position of the word of `words` that starts at k; k - 1 when
\* none does.  No word of `words` begins another.
WordEnd(t, k, words) ==
    IF \E w \in words : StartsAt(t, k, w)
    THEN k + Len(CHOOSE w \in words : StartsAt(t, k, w)) - 1
    ELSE k - 1

\* RE_NOME_POS_FRASE, lines 25-27.  t is the text in lower case, on which the
\* (?i) pattern is matched; positions are the same in s and t.
Acts == {"aposentadoria", "aposentadorio", "pensao", "pensão"}
Qualifiers == {"vitalícia", "vitalicia", "temporária", "temporaria"}

\* a[oà]?\s+ at k: the position after it, 0 when it does not match
AfterArticle(t, k) ==
    IF At(t, k) # "a" THEN 0
    ELSE LET b == IF At(t, k + 1) \in {"o", "à"} THEN k + 2 ELSE k + 1
             e == RunEnd(t, b, White)
         IN  IF e >= b THEN e + 1 ELSE 0

\* ([A-Z...][A-Z...\s\-.]{6,}?)(?:,|\.|;|$) at n: the last position of group
\* 1, the least that a terminator follows; 0 when there is no match
LazyName(s, n) ==
    LET run == RunEnd(s, n + 1, NameBody)
        ends == {e \in (n + 6)..run : e = Len(s) \/ At(s, e + 1) \in {",", ".", ";"}}
    IN  IF At(s, n) \in Letters /\ ends # {} THEN Least(ends) ELSE 0

\* a[oà]?\s+ and group 1 with the article at k: the first and last position
\* of group 1, << >> when there is no match
NameAfterArticle(s, t, k) ==
    LET n == AfterArticle(t, k)
        e == IF n = 0 THEN 0 ELSE LazyName(s, n)
    IN  IF e = 0 THEN << >> ELSE <<n, e>>

\* (?:,?\s*por[^,.;]+) at k and the rest of the pattern: [^,.;]+ is greedy, so
\* the article is the last one of the run after which the rest matches
PorName(s, t, k) ==
    LET c == IF At(t, k) = "," THEN k + 1 ELSE k
        p == RunEnd(t, c, White) + 1
        body == RunEndNot(t, p + 3, {",", ".", ";"})
        names == {NameAfterArticle(s, t, a) : a \in (p + 4)..(body + 1)} \ {<< >>}
    IN  IF StartsAt(t, p, "por") /\ names # {}
        THEN CHOOSE m \in names : \A o \in names : o[1] <= m[1]
        ELSE << >>

\* The first of two results that is not empty: a pattern tries its optional
\* groups present before it tries them absent, and lines 164 and 168 try the
\* next strategy `if not nome`.
OrElse(first, second) == IF first # << >> THEN first ELSE second

\* \s+ at k: the position after it, 0 when it does not match or k is 0
Spaces(t, k) == IF k > 0 /\ At(t, k) \in White THEN RunEnd(t, k, White) + 1 ELSE 0

\* One of `words` at k: the position after it, 0 when none is there or k is 0
Word(t, k, words) == IF k > 0 /\ WordEnd(t, k, words) >= k THEN WordEnd(t, k, words) + 1 ELSE 0

\* The rest of the pattern after the qualifier, from k: with the group of
\* `por` when that matches, without it otherwise.
PhraseRest(s, t, k) ==
    OrElse(PorName(s, t, RunEnd(t, k, White) + 1),
           NameAfterArticle(s, t, RunEnd(t, k, White) + 1))

\* The pattern after conceder\s+(act)\s+, from k (0 when that did not match):
\* with the qualifier when it is there and the rest matches after it.
PhraseTail(s, t, k) ==
    IF k = 0 THEN << >>
    ELSE IF WordEnd(t, k, Qualifiers) >= k
    THEN OrElse(PhraseRest(s, t, WordEnd(t, k, Qualifiers) + 1), PhraseRest(s, t, k))
    ELSE PhraseRest(s, t, k)

\* The match that starts at p: first and last position of group 1, or << >>.
\* The qualifier is taken when it is there and the rest matches after it.
PhraseAt(s, t, p) ==
    IF StartsAt(t, p, "conceder")
    THEN PhraseTail(s, t, Spaces(t, Word(t, Spaces(t, p + 8), Acts)))
    ELSE << >>

\* search(s).group(1): group 1 of the leftmost match, given the match at[p]
\* that starts at each position p as first and last position of group 1 or
\* << >>; empty when there is no match
Group1(s, at) ==
    LET hits == {p \in DOMAIN at : at[p] # << >>}
    IN  IF hits = {} THEN << >> ELSE SubSeq(s, at[Least(hits)][1], at[Least(hits)][2])

\* RE_NOME_POS_FRASE.search(s).group(1), empty when there is no match
NomePosFrase(s) ==
    LET t == TextLower(s) IN Group1(s, [p \in 1..Len(s) |-> PhraseAt(s, t, p)])

\* RE_NOME_SERVIDOR, lines 29-31
RoleNouns ==
    {"servidor", "servidora", "beneficiário", "beneficiária", "beneficiario",
     "beneficiaria", "pensionista", "pensionisto", "requerente"}

\* The match that starts at p: first and last position of group 1, or << >>.
RoleAt(s, t, p) ==
    LET ends == {p + Len(w) - 1 : w \in {v \in RoleNouns : StartsAt(t, p, v)}}
        spaced == {e \in ends : At(t, e + 1) \in White}
        n == RunEnd(t, Least(spaced) + 1, White) + 1
        e == RunEnd(s, n + 1, NameBody)
    IN  IF spaced # {} /\ At(s, n) \in Letters /\ e >= n + 6 THEN <<n, e>> ELSE << >>

\* RE_NOME_SERVIDOR.search(s).group(1), empty when there is no match
NomeServidor(s) ==
    LET t == TextLower(s) IN Group1(s, [p \in 1..Len(s) |-> RoleAt(s, t, p)])

\* lines 169-173: the window around the first key word
WINDOW == 120

KeyWords ==
    {"matricul", "processo", "beneficiário", "beneficiária", "beneficiario",
     "beneficiaria", "pensionista", "pensionisto"}

Window(s) ==
    LET t == TextLower(s)
        hits == {p \in 1..Len(s) : \E w \in KeyWords : StartsAt(t, p, w)}
        km_start == Least(hits) - 1
        km_end == WordEnd(t, Least(hits), KeyWords)
        from == IF km_start - WINDOW > 0 THEN km_start - WINDOW ELSE 0
        to == IF km_end + WINDOW < Len(s) THEN km_end + WINDOW ELSE Len(s)
    IN  IF hits = {} THEN s ELSE SubSeq(s, from + 1, to)

\* RE_NOME_CAIXA, line 20: the ends of the words of two capitals or more that
\* follow one another from p, a run of white space between each two
RECURSIVE CapitalWords(_, _)
CapitalWords(w, p) ==
    LET e == RunEnd(w, p, Caps)
        sp == RunEnd(w, e + 1, White)
    IN  IF e < p + 1 THEN << >>
        ELSE IF sp > e THEN <<e>> \o CapitalWords(w, sp + 1)
        ELSE <<e>>

\* The end of the match that starts at p, 0 when there is none: \b before the
\* first word, two words or more, \b after the last.
CaixaEnd(w, p) ==
    LET ends == CapitalWords(w, p)
        m == IF ends # << >> /\ At(w, ends[Len(ends)] + 1) \in WordChars
             THEN Len(ends) - 1 ELSE Len(ends)
    IN  IF At(w, p) \in Caps /\ At(w, p - 1) \notin WordChars /\ m >= 2 THEN ends[m] ELSE 0

\* RE_NOME_CAIXA.findall(w): the matches from left to right, none of them
\* starting inside an earlier one
FindAll(w, end) ==
    LET at == {p \in DOMAIN end : end[p] > 0}
        starts == {p \in at : \A o \in at : o < p => end[o] < p}
        nth(k) == CHOOSE p \in starts : Cardinality({o \in starts : o < p}) = k - 1
    IN  [k \in 1..Cardinality(starts) |-> SubSeq(w, nth(k), end[nth(k)])]

FindAllCaixa(w) == FindAll(w, [p \in 1..Len(w) |-> CaixaEnd(w, p)])

\* lines 33-34
BAD_TOKENS ==
    {Text(word) : word \in
        {"APOSENTADORIA", "PENSÃO", "PENSAO", "PORTARIA", "GABINETE", "PRESIDÊNCIA",
         "PRESIDENCIA", "ESTADO", "PARAÍBA", "PARAIBA", "DO", "DA", "DE", "E", "O", "A",
         "DIÁRIO", "OFICIAL", "GOVERNO", "PBPREV", "SECRETARIA", "RESOLVE", "CONCEDER",
         "VOLUNTÁRIA", "COMPULSÓRIA", "COMPULSORIA"}}

\* nm.split(): the words of a match (capitals only, which upper() leaves as
\* they are)
Parts(nm) == SelectSeq(Split(nm, " "), LAMBDA part : part # << >>)

\* lines 175-180: cand
CandNomes(nomes) ==
    SelectSeq(nomes, LAMBDA nm :
        LET parts == Parts(nm)
        IN  Len(parts) >= 2 /\ \A k \in 1..Len(parts) : parts[k] \notin BAD_TOKENS)

\* lines 181-183: the stable sort puts the longest first, and of two of the
\* same length the one found first (every candidate holds two words, so the
\* second component of the key is the same for all)
FirstSorted(cand) ==
    IF cand = << >> THEN << >>
    ELSE LET longest == Greatest({Len(cand[k]) : k \in 1..Len(cand)})
         IN  cand[Least({k \in 1..Len(cand) : Len(cand[k]) = longest})]

\* lines 168-183: the windowed fallback
NomeJanela(bflat) == FirstSorted(CandNomes(FindAllCaixa(Window(bflat))))

\* lines 163, 167: .strip(" .;-:,")
StripNome(g) == Strip(g, {" ", ".", ";", "-", ":", ","})

\* As Nome, with the role-anchored pattern tried before the phrase-anchored.
NomeRoleFirst(bflat) ==
    OrElse(StripNome(NomeServidor(bflat)),
           OrElse(StripNome(NomePosFrase(bflat)), NomeJanela(bflat)))

\* lines 160-183: nome
Nome(bflat) ==
    OrElse(StripNome(NomePosFrase(bflat)),
           OrElse(StripNome(NomeServidor(bflat)), NomeJanela(bflat)))

\* RE_MATRICULA and RE_PROCESSO, lines 21-22.
\* \s*[:\-]?\s* and group 1 from k: the first position of group 1, 0 when
\* there is no match.  A hyphen that nothing of the class follows is itself
\* the group.
ValueStart(s, k) ==
    LET y1 == RunEnd(s, k, White) + 1
        y2 == IF At(s, y1) \in {":", "-"} THEN y1 + 1 ELSE y1
        y3 == RunEnd(s, y2, White) + 1
    IN  IF At(s, y3) \in ValueChars THEN y3
        ELSE IF At(s, y1) \in ValueChars THEN y1
        ELSE 0

\* (?:\s*n[ºo°\.\-:]*)? and what follows, from k: the group of n with the
\* longest run after which group 1 matches, without it otherwise
AfterLabel(s, t, k) ==
    LET n == RunEnd(t, k, White) + 1
        run == RunEnd(t, n + 1, {"º", "o", "°", ".", "-", ":"})
        from == [e \in {k - 1} \cup n..run |-> ValueStart(s, e + 1)]
        ends == {e \in n..run : from[e] # 0}
    IN  IF At(t, n) = "n" /\ ends # {} THEN from[Greatest(ends)] ELSE from[k - 1]

\* The first position of group 1 of the match that starts at p, 0 when there
\* is none: the label, one of `suffix` when it is there and the rest matches.
LabelAt(s, t, p, label, suffix) ==
    LET q == p + Len(label)
        after == [k \in {q, q + 1} |-> AfterLabel(s, t, k)]
    IN  IF ~StartsAt(t, p, label) THEN 0
        ELSE IF At(t, q) \in suffix /\ after[q + 1] # 0 THEN after[q + 1]
        ELSE after[q]

\* Group 1 of the leftmost match, given the first position at[p] of group 1
\* of the match that starts at each position p, or 0; empty when there is none
LeftmostValue(s, at) ==
    LET hits == {p \in DOMAIN at : at[p] # 0}
    IN  IF hits = {} THEN << >>
        ELSE SubSeq(s, at[Least(hits)], RunEnd(s, at[Least(hits)], ValueChars))

\* pattern.search(s).group(1) with the (?i) pattern matched on t, the text s
\* in lower case; empty when there is no match
LabelValue(s, t, label, suffix) ==
    LeftmostValue(s, [p \in 1..Len(s) |-> LabelAt(s, t, p, label, suffix)])

\* .strip(".,; ") of lines 186 and 188
StripValue(g) == Strip(g, {".", ",", ";", " "})

\* lines 185-186
Matricula(bflat) == StripValue(LabelValue(bflat, TextLower(bflat), "matricul", {"a", "o"}))

\* lines 187-188
Processo(bflat) == StripValue(LabelValue(bflat, TextLower(bflat), "processo", {}))

\* line 196
TRECHO == 260

\* lines 190-197
Registro(bflat, page) ==
    [tipo_ato |-> Tipo(bflat),
     nome |-> Nome(bflat),
     matricula |-> Matricula(bflat),
     processo |-> Processo(bflat),
     pagina |-> page,
     trecho |-> SubSeq(bflat, 1, IF Len(bflat) < TRECHO THEN Len(bflat) ELSE TRECHO)]

\* The texts of the pages.  A line is put together from the parts that an
\* act of the gazette holds, each of them there or not.
Join(a, b) == IF a = "" THEN b ELSE IF b = "" THEN a ELSE a \o " " \o b

Preambles == {"RESOLVE", "ANA LUZ,"}

ActPhrases ==
    {"", "CONCEDER APOSENTADORIA", "CONCEDER APOSENTADORIA ...",
     "CONCEDER APOSENTADORIA por invalidez", "conceder pensão vitalícia",
     "isenção de imposto de renda indeferida",
     "isenção de imposto de renda indefinida"}

Recipients == {"", "a JOSE DA SILVA,", "a MARIA SOUZA,", "a ANA,"}

RolePhrases == {"", "servidora ROSA LIMA,"}

Clause ==
    "com fundamento no artigo 40 da Constituição Federal combinado com o artigo 3 da Emenda Constitucional 47 e com proventos integrais"

FieldPhrases ==
    {"", "matrícula 12345, processo 2023.001.9", "matricula 12345, processo 2023.001.9",
     Clause \o " processo 2023.001.9"}

Codas == {"", "e conceder pensão, isenção de imposto de renda indeferida"}

\* The head of a line (preamble and act) and the rest of it.
Heads == {Join(pre, act) : pre \in Preambles, act \in ActPhrases}

PlainRests == {Join(to, fields) : to \in Recipients, fields \in FieldPhrases}

Rests ==
    {Join(to, Join(role, Join(fields, coda)))
        : to \in Recipients, role \in RolePhrases, fields \in FieldPhrases,
          coda \in Codas}

\* A page holds the line whole, or broken in two after its head, or broken
\* in two between the masthead and the footer with blank lines around it.
PageTexts ==
    {Join(h, r) : h \in Heads, r \in Rests}
        \cup {h \o NL \o r : h \in Heads, r \in PlainRests}
        \cup {"DIÁRIO OFICIAL" \o NL \o NL \o h \o NL \o r \o NL \o NL \o "João Pessoa"
                : h \in Heads, r \in PlainRests}

\* The PDFs: one page of text, after pages without text or not.
Pdfs ==
    {<<txt>> : txt \in PageTexts}
        \cup {[k \in 1..n |-> ""] \o <<Join(h, r)>>
                : n \in 1..MaxBlankPages, h \in Heads, r \in PlainRests}

ExtractIdle ==
    /\ e_pc = "idle"
    /\ pdf_pages = << >>
    /\ pagina = 0
    /\ raw_blocks = << >>
    /\ e_idx = 0
    /\ registros = << >>
    /\ blocks_done = << >>

\* lines 137-140: the call, at the first page (enumerate from 1)
ExtractCalled ==
    /\ e_pc = "pages"
    /\ pdf_pages \in Pdfs
    /\ pagina = 1
    /\ raw_blocks = << >>
    /\ e_idx = 0
    /\ registros = << >>
    /\ blocks_done = << >>

\* lines 141-143: extract_text gave nothing
PageNoText ==
    /\ e_pc = "pages"
    /\ pagina <= Len(pdf_pages)
    /\ pdf_pages[pagina] = ""
    /\ pagina' = pagina + 1
    /\ UNCHANGED <<e_pc, pdf_pages, raw_blocks, e_idx, registros, blocks_done, resolverVars,
                   crawlVars>>

\* lines 141-146: the text of the page is cut into blocks
PageSplit ==
    /\ e_pc = "pages"
    /\ pagina <= Len(pdf_pages)
    /\ pdf_pages[pagina] # ""
    /\ raw_blocks' = RawBlocks(pdf_pages[pagina])
    /\ e_idx' = 1
    /\ e_pc' = "blocks"
    /\ UNCHANGED <<pdf_pages, pagina, registros, blocks_done, resolverVars, crawlVars>>

\* lines 147-197: the body of the loop.  A block without a type is passed
\* over, a block with a type adds its record.
BlockStep ==
    /\ e_pc = "blocks"
    /\ e_idx <= Len(raw_blocks)
    /\ LET bflat == Flat(raw_blocks[e_idx])
           added == IF Tipo(bflat) = "None" THEN << >> ELSE <<Registro(bflat, pagina)>>
       IN  /\ registros' = registros \o added
           /\ blocks_done' = Append(blocks_done, [bflat |-> bflat, added |-> added])
    /\ e_idx' = e_idx + 1
    /\ UNCHANGED <<e_pc, pdf_pages, pagina, raw_blocks, resolverVars, crawlVars>>

\* line 147: the blocks of the page are done
BlocksDone ==
    /\ e_pc = "blocks"
    /\ e_idx > Len(raw_blocks)
    /\ pagina' = pagina + 1
    /\ e_pc' = "pages"
    /\ UNCHANGED <<pdf_pages, raw_blocks, e_idx, registros, blocks_done, resolverVars, crawlVars>>

\* line 198
ExtractReturns ==
    /\ e_pc = "pages"
    /\ pagina > Len(pdf_pages)
    /\ e_pc' = "returned"
    /\ UNCHANGED <<pdf_pages, pagina, raw_blocks, e_idx, registros, blocks_done, resolverVars,
                   crawlVars>>

ListingPages == SeqsUpTo(ListingAnchors, MaxItems)

Init == CrawlCalled({"historico", "diario"}) /\ ResolverIdle /\ ExtractIdle

Next ==
    \/ RodarStart
    \/ RodarStartFails
    \/ OpenSink
    \/ OpenSinkFails
    \/ LoadFirstPage(ListingPages)
    \/ ListingLoadFails(MaxListingPages)
    \/ ItemSkipped
    \/ ItemResolveRaises
    \/ ItemNoPdf
    \/ ItemExtracted
    \/ ItemExtractRaises
    \/ FirstPageDone
    \/ ForStart(ListingPages, MaxListingPages)
    \/ PageDone
    \/ DiarioLoad(ListingPages)
    \/ DiarioItemNoPdf
    \/ DiarioItemExtracted
    \/ DiarioWrite
    \/ DiarioWriteFails
    \/ Finally

Spec == Init /\ [][Next]_vars

\* The crawl over the whole range: pages of at most one anchor, no cap.
CeilingPages ==
    {<< >>, <<Anchor("doe/e1", LabelUndated)>>, <<Anchor("doe/e2", LabelCutoff)>>}

InitCeiling == CrawlCalled({"historico"}) /\ ResolverIdle /\ ExtractIdle

NextCeiling ==
    \/ RodarStart
    \/ RodarStartFails
    \/ OpenSink
    \/ OpenSinkFails
    \/ LoadFirstPage(CeilingPages)
    \/ ListingLoadFails(RANGE_STOP)
    \/ ItemSkipped
    \/ ItemResolveRaises
    \/ ItemNoPdf
    \/ ItemExtracted
    \/ ItemExtractRaises
    \/ FirstPageDone
    \/ ForStart(CeilingPages, RANGE_STOP)
    \/ PageDone
    \/ Finally

\* The code is one sequential thread and every call it makes returns: a step
\* that can be taken is taken.
SpecCeiling == InitCeiling /\ [][NextCeiling]_vars /\ WF_vars(NextCeiling)

NextResolver ==
    \/ NavigateRaises
    \/ NavigateLoads
    \/ CandidateSeen
    \/ CandidateFetch
    \/ MarkupScan
    \/ MarkupFetch
    \/ ReturnAbsent

InitResolver == ResolverCalled /\ CrawlIdle /\ ExtractIdle

SpecResolver == InitResolver /\ [][NextResolver]_vars

\* The listing pages of the diario runs: the first n anchors of a listing
\* whose every third anchor is no edition, each under its own reference.
DiarioPages ==
    {[k \in 1..n |-> Anchor("doe/d" \o ToString(k), IF k % 3 = 0 THEN LabelOther ELSE LabelNew)]
        : n \in 0..MaxDiarioAnchors}

InitDiario == CrawlCalled({"diario"}) /\ ResolverIdle /\ ExtractIdle

NextDiario ==
    \/ RodarStart
    \/ RodarStartFails
    \/ DiarioLoad(DiarioPages)
    \/ ListingLoadFails(0)
    \/ DiarioItemNoPdf
    \/ DiarioItemExtracted
    \/ DiarioWrite
    \/ DiarioWriteFails
    \/ Finally

SpecDiario == InitDiario /\ [][NextDiario]_vars

NextExtract ==
    \/ PageNoText
    \/ PageSplit
    \/ BlockStep
    \/ BlocksDone
    \/ ExtractReturns

InitExtract == ExtractCalled /\ CrawlIdle /\ ResolverIdle

SpecExtract == InitExtract /\ [][NextExtract]_vars

\* ------------------------------------------------------------------------
\* Properties
\* ------------------------------------------------------------------------
\* The label's parsed year is at most 2019.
YearAtMost2019(txt) == txt.date # << >> /\ txt.date[3] <= 2019

\* The label makes the anchor a listing item in range: an edition whose year
\* is absent or above 2019.
InRangeEdition(txt) == txt.diario /\ txt.pdf /\ ~YearAtMost2019(txt)

\* The page holds a listing item whose parsed year is at most 2019.
HasCutoffItem(page) ==
    \E k \in 1..Len(page) : page[k].txt.diario /\ page[k].txt.pdf /\ YearAtMost2019(page[k].txt)

Times(log, h) == Cardinality({k \in 1..Len(log) : log[k].href = h})

\* C1: in a historico crawl, a listing page holding an item of year <= 2019
\* is the last one loaded, and when the loop over its items ends every
\* in-range item of the page, before or after that item, has been handled.
C1_CutoffLatch ==
    /\ [][modo = "historico" /\ HasCutoffItem(listing) => loads' = loads]_vars
    /\ [](modo = "historico" /\ pc \in {"items0", "items"} /\ i > Len(items)
             /\ HasCutoffItem(listing)
           => \A k \in 1..Len(listing) :
                 InRangeEdition(listing[k].txt) => listing[k].href \in seen)

\* a crawl that returned after a second page whose first anchor was at the
\* cutoff and whose last item was resolved, with a further page within the cap
C1_Witness ==
    /\ modo = "historico"
    /\ pc = "done"
    /\ outcome = "returned"
    /\ loads = 2
    /\ loads < MaxListingPages
    /\ Len(listing) >= 2
    /\ listing[1].txt = LabelCutoff
    /\ Len(items) >= 1
    /\ Len(resolved) >= 1
    /\ resolved[Len(resolved)] = items[Len(items)]

\* C2: in one run of rodar the resolver and the extractor are called at most
\* once for each item reference.
C2_ResolvedOnce ==
    \A h \in Hrefs : Times(resolved, h) <= 1 /\ Times(extracted, h) <= 1

\* C3: a returned byte result that is not absent is not empty and is the body
\* of a response that began with %PDF or declared a PDF content type.
C3_OnlyPdfReturned ==
    r_pc = "returned" /\ r_result.data # None
    => /\ ~last_resp.err
       /\ last_resp.magic \/ last_resp.ct_pdf
       /\ ~last_resp.empty
       /\ r_result.data = [magic |-> last_resp.magic, empty |-> FALSE]

\* bytes without the magic sequence returned on the content type alone
C3_Witness ==
    /\ r_pc = "returned"
    /\ r_result.data # None
    /\ ~last_resp.magic
    /\ last_resp.ct_pdf
    /\ Len(fetches) >= 2

\* The per-item errors of categories 1-5.
ItemErrors == {"nopdf", "notext", "nofield", "timeout", "diskwrite"}

\* C4: no per-item error ends a historico crawl.
C4_ItemErrorsDoNotAbort == modo = "historico" => fault \notin ItemErrors

\* C5: when rodar has ended and start() had acquired the session, quit was
\* called once and driver and wait are None.
C5_SessionTornDown ==
    /\ pc = "done" /\ fault # "start"
       => driver = "None" /\ wait = "None" /\ quit_calls = 1
    /\ driver # "None" => pc # "done"

\* rodar ended by the exception of quit itself
C5_Witness ==
    /\ pc = "done"
    /\ fault = "quit"
    /\ outcome = "raised"
    /\ quit_calls = 1
    /\ driver = "None"
    /\ loads >= 1

\* C6: the resolver never raises.
C6_NeverRaises == r_pc # "raised"

Rank(rule) ==
    CASE rule = "anchor" -> 1
      [] rule = "frame" -> 2
      [] rule = "synth" -> 3
      [] rule = "regex" -> 4
      [] rule = "self" -> 5

\* C7: the fetches follow the order anchors, frames, synthesized URL, regex
\* hrefs, detail reference; a returned result is that of the last fetch.
C7_CandidateOrder ==
    /\ \A a, b \in 1..Len(fetches) :
          a < b => Rank(fetches[a].rule) <= Rank(fetches[b].rule)
    /\ r_result.data # None => r_result.url = fetches[Len(fetches)].u

\* C8: within one call no URL is fetched twice.
C8_FetchedOnce ==
    \A a, b \in 1..Len(fetches) : a < b => fetches[a].u # fetches[b].u

\* C9: a historico crawl ends, having loaded at most 1667 listing pages, at
\* offset 0 and at the offsets 12, 24, ..., 19992.
C9_Terminates ==
    /\ <>(pc = "done")
    /\ [](loads <= 1667)
    /\ [](pc \in {"items0", "items"} => start = 12 * (loads - 1) /\ start <= 19992)

\* a crawl that returned at the ceiling: 1667 pages, the last one empty
C9_Witness ==
    /\ pc = "done"
    /\ outcome = "returned"
    /\ loads = 1667
    /\ ~stop
    /\ items = << >>
    /\ start = 20004

\* C10: in a historico crawl the stop flag of a page is set exactly when the
\* page holds an item of year <= 2019, and no such item is resolved, written
\* to disk, extracted or the origin of a row of the sink.
C10_OldItemsExcluded ==
    modo = "historico"
    => /\ pc \in {"items0", "items"} => (stop <=> HasCutoffItem(listing))
       /\ \A k \in 1..Len(items) : ~YearAtMost2019(items[k].txt)
       /\ \A k \in 1..Len(resolved) : ~YearAtMost2019(resolved[k].txt)
       /\ \A k \in 1..Len(extracted) : ~YearAtMost2019(extracted[k].txt)
       /\ \A f \in disk : ~YearAtMost2019(f)
       /\ \A k \in 2..Len(sink) : ~YearAtMost2019(sink[k].data_link)

\* a page with an item of 2018 and an item in range whose record is in the sink
C10_Witness ==
    /\ modo = "historico"
    /\ pc = "done"
    /\ stop
    /\ \E k \in 1..Len(listing) : listing[k].txt = LabelOld
    /\ Len(items) >= 1
    /\ Len(sink) >= 2
    /\ sink[Len(sink)].data_link = items[Len(items)].txt

\* The anchors of a type in the normalised text of a block, with the stem
\* "indeferi" for the exemption.
ClaimedAnchors(nb) ==
    \/ InStr("conceder aposentadoria", nb)
    \/ InStr("conceder pensao", nb)
    \/ InStr("isencao de imposto de renda", nb) /\ InStr("indeferi", nb)

\* C11: every record carries one of the three types, and a block adds a
\* record only if its normalised text holds "conceder aposentadoria", or
\* "conceder pensao", or "isencao de imposto de renda" and the stem "indeferi".
C11_Precision ==
    \A k \in 1..Len(blocks_done) :
        blocks_done[k].added # << >>
        => /\ blocks_done[k].added[1].tipo_ato
                 \in {"APOSENTADORIA", "PENSAO", "ISENCAO_INDEFERIDA"}
           /\ ClaimedAnchors(nrm(blocks_done[k].bflat))

\* C12: a block adds one record at most, the list of records holds what the
\* blocks added, and a block whose normalised text holds "conceder
\* aposentadoria" adds one record of type APOSENTADORIA whatever else it holds.
C12_RetirementFirst ==
    /\ Len(registros) = Cardinality({k \in 1..Len(blocks_done) : blocks_done[k].added # << >>})
    /\ \A k \in 1..Len(blocks_done) :
          /\ Len(blocks_done[k].added) <= 1
          /\ InStr("conceder aposentadoria", nrm(blocks_done[k].bflat))
             => /\ Len(blocks_done[k].added) = 1
                /\ blocks_done[k].added[1].tipo_ato = "APOSENTADORIA"

\* a retirement block that also holds the pension and the exemption anchors
C12_Witness ==
    \E k \in 1..Len(blocks_done) :
        /\ InStr("conceder aposentadoria", nrm(blocks_done[k].bflat))
        /\ InStr("conceder pensao", nrm(blocks_done[k].bflat))
        /\ InStr("isencao de imposto de renda", nrm(blocks_done[k].bflat))
        /\ InStr("indeferi", nrm(blocks_done[k].bflat))
        /\ blocks_done[k].added # << >>
        /\ blocks_done[k].added[1] = registros[Len(registros)]

\* The first of the values that is not empty, empty when all of them are.
FirstNonEmpty(values) ==
    IF \A j \in 1..Len(values) : values[j] = << >> THEN << >>
    ELSE values[Least({j \in 1..Len(values) : values[j] # << >>})]

\* The stripped results of the three strategies on a block, in their order.
Strategies(bflat) ==
    <<StripNome(NomePosFrase(bflat)), StripNome(NomeServidor(bflat)), NomeJanela(bflat)>>

\* C13: the name of a record is the first non-empty result of the
\* phrase-anchored pattern, the role-anchored pattern and the windowed
\* fallback, in this order, and the empty string when all three are empty.
C13_NamePriority ==
    \A k \in 1..Len(blocks_done) :
        blocks_done[k].added # << >>
        => blocks_done[k].added[1].nome = FirstNonEmpty(Strategies(blocks_done[k].bflat))

\* a block on which the phrase-anchored and the role-anchored pattern give
\* two different names
C13_Witness ==
    \E k \in 1..Len(blocks_done) :
        /\ blocks_done[k].added # << >>
        /\ blocks_done[k].added[1].nome # << >>
        /\ StripNome(NomeServidor(blocks_done[k].bflat))
               \notin {<< >>, blocks_done[k].added[1].nome}
        /\ StripNome(NomePosFrase(blocks_done[k].bflat)) = blocks_done[k].added[1].nome

\* The rows of the sink after the header are those of the items extracted so
\* far: each row is a record of an extracted item, the rows of an item are
\* numbered from 1 without a gap, and the items follow one another as they
\* were extracted.
ExtractedAt(row) == CHOOSE k \in 1..Len(extracted) : extracted[k].href = row.detail_url

RowsInExtractionOrder ==
    \A j \in 2..Len(sink) :
        /\ \E k \in 1..Len(extracted) : sink[j] = Row(extracted[k], sink[j].rec)
        /\ \/ sink[j].rec = 1 /\ (j > 2 => ExtractedAt(sink[j - 1]) < ExtractedAt(sink[j]))
           \/ /\ j > 2
              /\ sink[j - 1].detail_url = sink[j].detail_url
              /\ sink[j].rec = sink[j - 1].rec + 1

Discovered ==
    SelectSeq(candidates, LAMBDA c : c.rule # "self")
        \o [k \in 1..Len(RegexScan(page_source)) |->
               Cand(UrlJoin(current_url, RegexScan(page_source)[k]), "regex")]

\* C15: an absent byte result is paired with the first candidate the scan of
\* the page discovered, and with the detail reference when it discovered none.
C15_AbsentResultUrl ==
    r_pc = "returned" /\ r_result.data = None
    => r_result.url = IF Discovered # << >> THEN Discovered[1].u ELSE detail_url

\* C16: the summary of a historico crawl reports the number of files written
\* to the download directory and the number of data rows of the sink.
C16_SummaryCounts ==
    summary # None
    => /\ summary.pdfs = Cardinality(disk)
       /\ summary.registros = Len(sink) - 1

\* The first n of the anchors of the page that are editions.
FirstEditions(page, n) ==
    LET editions == SelectSeq(page, LAMBDA a : a.txt.diario /\ a.txt.pdf)
    IN  SubSeq(editions, 1, IF Len(editions) < n THEN Len(editions) ELSE n)

\* C17: a diario run loads one listing page at most, at offset 0; it hands
\* to the resolver the first 5 edition anchors of the page, in their order,
\* whatever the outcome of each, and no outcome of an item ends the run.
C17_DiarioBounded ==
    /\ loads <= 1
    /\ start = 0
    /\ pc \notin {"first", "items0", "items", "for"}
    /\ fault \notin ItemErrors
    /\ Len(resolved) <= 5
    /\ pc = "d_items" => loads = 1 /\ resolved = SubSeq(FirstEditions(listing, 5), 1, i - 1)
    /\ pc \in {"finally", "done"} /\ loads = 1 => resolved = FirstEditions(listing, 5)

\* a run on a page of more than 5 editions that went on to the fifth after
\* items without bytes
C17_Witness ==
    /\ pc = "done"
    /\ outcome = "returned"
    /\ Cardinality({k \in 1..Len(listing) : listing[k].txt.diario /\ listing[k].txt.pdf}) > 5
    /\ Len(resolved) = 5
    /\ Len(extracted) \in 1..4
    /\ extracted[Len(extracted)] = resolved[5]
    /\ Len(sink) >= 2

\* The page text of the canonical act.
CanonicalText ==
    "RESOLVE CONCEDER APOSENTADORIA ... a JOSE DA SILVA, matrícula 12345, processo 2023.001.9"

\* C18: of a PDF of one page whose text is the canonical act, the extractor
\* returns one record: APOSENTADORIA, JOSE DA SILVA, 12345, 2023.001.9, page 1.
C18_CanonicalAct ==
    e_pc = "returned" /\ pdf_pages = <<CanonicalText>>
    => /\ Len(registros) = 1
       /\ registros[1].tipo_ato = "APOSENTADORIA"
       /\ registros[1].nome = Text("JOSE DA SILVA")
       /\ registros[1].matricula = Text("12345")
       /\ registros[1].processo = Text("2023.001.9")
       /\ registros[1].pagina = 1

\* C19: in a historico crawl a page whose labels hold no date does not set
\* the stop flag and all its editions are items; an item without a year whose
\* reference was not seen is handed to the resolver; and a crawl that
\* returned without the stop flag loaded all 1667 pages.
C19_UndatedItems ==
    /\ [](pc \in {"items0", "items"} /\ (\A k \in 1..Len(listing) : listing[k].txt.date = << >>)
            => /\ ~stop
               /\ Len(items) = Cardinality({k \in 1..Len(listing) :
                                               listing[k].txt.diario /\ listing[k].txt.pdf}))
    /\ [][InItemLoop /\ items[i].year = {} /\ items[i].href \notin seen
            => resolved' = Append(resolved, items[i])]_vars
    /\ [](pc = "done" /\ outcome = "returned" /\ ~stop => loads = 1667)

\* a crawl that resolved an item without a date and went on to the ceiling
C19_Witness ==
    /\ pc = "done"
    /\ outcome = "returned"
    /\ loads = 1667
    /\ ~stop
    /\ Len(resolved) = 1
    /\ resolved[1].year = {}
    /\ Len(extracted) = 1

=============================================================================
